---- MODULE Spec2Model ----
(***************************************************************************)
(* Model of the match-3 game of src/index.tsx: the React component App,    *)
(* its state (gems, score, selectedId, isProcessing, isPaused), the        *)
(* module-level gemIdCounter, and the asynchronous handleSwap /            *)
(* processBoard sequences, one step per stretch of code between two        *)
(* awaits.  A state update and the re-render that follows it are one step: *)
(* every event handler reads the values of the latest update.              *)
(* The particle effects (spawnExplosion, the particle interval) and the    *)
(* constant isNew flag do not influence the game state and are left out.   *)
(***************************************************************************)
EXTENDS Integers, Sequences, FiniteSets, TLC

\* ---- bounds of the model ------------------------------------------------
\* The board of the source is 8 x 8 with 6 kinds; the model keeps the code
\* and scales the three numbers down.
COLS == 4
ROWS == 3
NumTypes == 2
\* Number of gems the refills of one behaviour create: a round that would
\* create more is not completed.
MaxRefill == 3
\* Number of Reset clicks in one behaviour.
MaxResets == 1
\* Number of handleSwap calls in one behaviour.
MaxSwaps == 2
\* Number of handleSwap/processBoard sequences that can be in flight.
MaxProcs == 2
\* Number of boards initGame chooses from in Spec; SpecInitGame draws every
\* board.
MaxBoards == 1
\* The same bounds for SpecGame, the program without the Reset button.
GameRefill == 9
GameSwaps == 2
GameBoards == 4
\* the game in which Pause is studied: calls of handleSwap and gems created
\* by refills
PauseSwaps == 1
PauseRefill == 6

TYPES == 1..NumTypes

NoGem == [id |-> -1, x |-> -1, y |-> -1, type |-> 0, isMatch |-> FALSE]

VARIABLES
  gems,          \* useState<Gem[]>: sequence of gem records
  score,         \* useState(0)
  selectedId,    \* useState<number | null>: a gem id, or -1 for null
  isProcessing,  \* useState(false)
  isPaused,      \* useState(false)
  gemIdCounter,  \* module-level counter of createGem
  mounted,       \* FALSE until the mount effect has run initGame
  resets,        \* Reset clicks so far
  swaps,         \* handleSwap calls so far
  procs,         \* the in-flight handleSwap/processBoard sequences
  fmLayout,      \* argument of a stand-alone findMatches call
  fmResult       \* its result

vars == <<gems, score, selectedId, isProcessing, isPaused, gemIdCounter,
          mounted, resets, swaps, procs, fmLayout, fmResult>>

NULL == -1

\* ---- createGem -----------------------------------------------------------
createGem(counter, x, y, type) ==
  [id |-> counter, x |-> x, y |-> y, type |-> type, isMatch |-> FALSE]

\* ---- initGame ------------------------------------------------------------
\* Redrawn with the test of the column left out
RedrawnRowOnly(s, t) ==
  LET len == Len(s)
      x == len % COLS
  IN  x >= 2 /\ s[len] = t /\ s[len - 1] = t

\* The while loop of initGame redraws a kind as long as it would complete a
\* run with the two gems pushed last (x >= 2) or with the two gems one and
\* two rows up (y >= 2).  s holds the kinds pushed so far (newGems).
Redrawn(s, t) ==
  LET len == Len(s)
      x == len % COLS
      y == len \div COLS
  IN  \/ (x >= 2 /\ s[len] = t /\ s[len - 1] = t)
      \/ (y >= 2 /\ s[len - COLS + 1] = t /\ s[len - 2 * COLS + 1] = t)

RECURSIVE DrawnKinds(_)
\* All sequences of n kinds the nested loops of initGame can push.
DrawnKinds(n) ==
  IF n = 0 THEN {<<>>}
  ELSE UNION {{Append(s, t) : t \in {u \in TYPES : ~Redrawn(s, u)}} :
                s \in DrawnKinds(n - 1)}

InitKinds == DrawnKinds(ROWS * COLS)

LexLess(s, t) ==
  \E i \in 1..Len(s) : s[i] < t[i] /\ \A j \in 1..(i - 1) : s[j] = t[j]

\* the first n outcomes of the draws of initGame, in lexicographic order
FirstKinds(n) ==
  {s \in InitKinds : Cardinality({t \in InitKinds : LexLess(t, s)}) < n}

SampleKinds == FirstKinds(MaxBoards)

GameKinds == FirstKinds(GameBoards)

\* newGems of initGame for the kinds drawn, the first id being counter
initGameGems(counter, kinds) ==
  [i \in 1..(ROWS * COLS) |->
     createGem(counter + i - 1, (i - 1) % COLS, (i - 1) \div COLS, kinds[i])]

\* ---- findMatches ---------------------------------------------------------
\* currentGems.find(g => g.x === x && g.y === y): the first such gem, or
\* NoGem for undefined
getGemAt(x, y, currentGems) ==
  LET hits == {i \in 1..Len(currentGems) :
                 currentGems[i].x = x /\ currentGems[i].y = y}
  IN  IF hits = {} THEN NoGem
      ELSE currentGems[CHOOSE i \in hits : \A j \in hits : i <= j]

RECURSIVE ExtendRow(_, _, _, _)
\* the inner while loop of the horizontal scan, from column k
ExtendRow(k, y, type, currentGems) ==
  IF k < COLS
  THEN LET next == getGemAt(k, y, currentGems)
       IN  IF next # NoGem /\ next.type = type
           THEN {next.id} \cup ExtendRow(k + 1, y, type, currentGems)
           ELSE {}
  ELSE {}

RECURSIVE ExtendCol(_, _, _, _)
\* the inner while loop of the vertical scan, from row k
ExtendCol(x, k, type, currentGems) ==
  IF k < ROWS
  THEN LET next == getGemAt(x, k, currentGems)
       IN  IF next # NoGem /\ next.type = type
           THEN {next.id} \cup ExtendCol(x, k + 1, type, currentGems)
           ELSE {}
  ELSE {}

\* one window of the horizontal scan: the ids it adds to matches
HorizontalWindow(x, y, currentGems) ==
  LET g1 == getGemAt(x, y, currentGems)
      g2 == getGemAt(x + 1, y, currentGems)
      g3 == getGemAt(x + 2, y, currentGems)
  IN  IF g1 # NoGem /\ g2 # NoGem /\ g3 # NoGem
         /\ g1.type = g2.type /\ g1.type = g3.type
      THEN {g1.id, g2.id, g3.id} \cup ExtendRow(x + 3, y, g1.type, currentGems)
      ELSE {}

\* VerticalWindow comparing only the first two gems of the window
VerticalWindowTwo(x, y, currentGems) ==
  LET g1 == getGemAt(x, y, currentGems)
      g2 == getGemAt(x, y + 1, currentGems)
      g3 == getGemAt(x, y + 2, currentGems)
  IN  IF g1 # NoGem /\ g2 # NoGem /\ g3 # NoGem /\ g1.type = g2.type
      THEN {g1.id, g2.id, g3.id} \cup ExtendCol(x, y + 3, g1.type, currentGems)
      ELSE {}

\* one window of the vertical scan
VerticalWindow(x, y, currentGems) ==
  LET g1 == getGemAt(x, y, currentGems)
      g2 == getGemAt(x, y + 1, currentGems)
      g3 == getGemAt(x, y + 2, currentGems)
  IN  IF g1 # NoGem /\ g2 # NoGem /\ g3 # NoGem
         /\ g1.type = g2.type /\ g1.type = g3.type
      THEN {g1.id, g2.id, g3.id} \cup ExtendCol(x, y + 3, g1.type, currentGems)
      ELSE {}

findMatches(currentGems) ==
  UNION {HorizontalWindow(x, y, currentGems) : x \in 0..(COLS - 3), y \in 0..(ROWS - 1)}
  \cup
  UNION {VerticalWindow(x, y, currentGems) : x \in 0..(COLS - 1), y \in 0..(ROWS - 3)}

\* ---- processBoard: removal, gravity, refill ------------------------------
\* currentGems.filter(g => !matchedIds.has(g.id))
remainingGems(currentGems, matchedIds) ==
  SelectSeq(currentGems, LAMBDA g : g.id \notin matchedIds)

\* columns[x] before the sort: the remaining gems of column x, in array order
columnOf(x, remaining) == SelectSeq(remaining, LAMBDA g : g.x = x)

RECURSIVE SortAscending(_)
\* ascending y, stable: an insertion sort
SortAscending(s) ==
  IF s = <<>> THEN <<>>
  ELSE LET front == SortAscending(SubSeq(s, 1, Len(s) - 1))
           g == s[Len(s)]
           p == Cardinality({i \in 1..Len(front) : front[i].y <= g.y})
       IN  SubSeq(front, 1, p) \o <<g>> \o SubSeq(front, p + 1, Len(front))

\* SortByY with the comparator reversed (b.y - a.y)
SortByYDescending(s) ==
  LET t == SortAscending(s)
  IN  [i \in 1..Len(t) |-> t[Len(t) + 1 - i]]

\* columns[x].sort((a, b) => a.y - b.y)
SortByY(s) == SortAscending(s)

\* missing = ROWS - count for column x
missingOf(x, remaining) == ROWS - Len(columnOf(x, remaining))

\* a loop that creates one gem at most for a column
createdInOne(x, remaining) ==
  IF ROWS - Len(SelectSeq(remaining, LAMBDA g : g.x = x)) > 0 THEN 1 ELSE 0

\* number of iterations of the loop that creates the gems of column x
createdIn(x, remaining) ==
  IF missingOf(x, remaining) > 0 THEN missingOf(x, remaining) ELSE 0

RECURSIVE createdBefore(_, _)
\* number of gems created for the columns 0 .. x-1
createdBefore(x, remaining) ==
  IF x = 0 THEN 0
  ELSE createdBefore(x - 1, remaining) + createdIn(x - 1, remaining)

\* every created gem put just above the board
createdYTop(i, missing) == -1

\* createGem(x, i - missing): the y of the i-th gem created for a column
createdY(i, missing) == i - missing

\* what one iteration of the loop over x pushes to newGems: the created gems
\* (y = i - missing), then the sorted gems of the column at y = index + missing
rebuiltColumn(x, remaining, counter, kinds) ==
  LET col == SortByY(columnOf(x, remaining))
      missing == missingOf(x, remaining)
      off == createdBefore(x, remaining)
  IN  [i \in 1..createdIn(x, remaining) |->
         createGem(counter + off + i - 1, x, createdY(i - 1, missing),
                   kinds[off + i])]
      \o
      [index \in 1..Len(col) |->
         [col[index] EXCEPT !.y = (index - 1) + missing, !.isMatch = FALSE]]

RECURSIVE rebuiltUpTo(_, _, _, _)
\* newGems after the iterations x = 0 .. n-1
rebuiltUpTo(n, remaining, counter, kinds) ==
  IF n = 0 THEN <<>>
  ELSE rebuiltUpTo(n - 1, remaining, counter, kinds)
       \o rebuiltColumn(n - 1, remaining, counter, kinds)

\* newGems of one round of processBoard
gravityRefill(currentGems, matchedIds, counter, kinds) ==
  rebuiltUpTo(COLS, remainingGems(currentGems, matchedIds), counter, kinds)

\* number of createGem calls of one round
createdTotal(currentGems, matchedIds) ==
  createdBefore(COLS, remainingGems(currentGems, matchedIds))

\* gems.map(g => matchedIds.has(g.id) ? {...g, isMatch: true} : g)
markMatches(g, matchedIds) ==
  [i \in 1..Len(g) |->
     IF g[i].id \in matchedIds THEN [g[i] EXCEPT !.isMatch = TRUE] ELSE g[i]]

\* ---- handleSwap ----------------------------------------------------------
\* gems.find(g => g.id === id), or NoGem for undefined
findById(g, id) ==
  LET hits == {i \in 1..Len(g) : g[i].id = id}
  IN  IF hits = {} THEN NoGem ELSE g[CHOOSE i \in hits : \A j \in hits : i <= j]

\* nextGems with the gem id2 left where it was
swapGemsFirstOnly(g, id1, id2) ==
  LET g2 == findById(g, id2)
  IN  [i \in 1..Len(g) |->
         IF g[i].id = id1 THEN [g[i] EXCEPT !.x = g2.x, !.y = g2.y] ELSE g[i]]

\* nextGems: the coordinates of id1 and id2 exchanged
swapGems(g, id1, id2) ==
  LET g1 == findById(g, id1)
      g2 == findById(g, id2)
  IN  [i \in 1..Len(g) |->
         IF g[i].id = id1 THEN [g[i] EXCEPT !.x = g2.x, !.y = g2.y]
         ELSE IF g[i].id = id2 THEN [g[i] EXCEPT !.x = g1.x, !.y = g1.y]
         ELSE g[i]]

Abs(n) == IF n < 0 THEN -n ELSE n

\* distance with dy left out
distanceDxOnly(g1, g2) == Abs(g1.x - g2.x)

\* dx + dy of handleClick
distance(g1, g2) == Abs(g1.x - g2.x) + Abs(g1.y - g2.y)

\* ---- the in-flight sequences ---------------------------------------------
\* One record per handleSwap call that has not returned.  pc is the await it
\* is suspended at; orig is the gems of its closure, cur the nextGems or
\* currentGems it works on, new the newGems of the round, mult the
\* multiplier.  History: rounds is the matchedIds.size of each round so far,
\* layouts the positions and kinds of the currentGems of each round, added
\* what its setScore calls have added, score0 the score and resets0 the
\* number of Resets when it began.
IdleProc ==
  [pc |-> "idle", orig |-> <<>>, cur |-> <<>>, new |-> <<>>, mult |-> 0,
   rounds |-> <<>>, layouts |-> <<>>, added |-> 0, score0 |-> 0,
   resets0 |-> 0]

\* the positions and kinds of a layout, without the ids
Shape(g) == {<<g[i].x, g[i].y, g[i].type>> : i \in 1..Len(g)}

Slots == 1..MaxProcs

InFlight == {p \in Slots : procs[p].pc # "idle"}

FreeSlot == CHOOSE p \in Slots \ InFlight : \A q \in Slots \ InFlight : p <= q

Ids(g) == {g[i].id : i \in 1..Len(g)}

\* gems created so far by the refills of processBoard
Refilled == gemIdCounter - ROWS * COLS * (resets + 1)

\* ---- Init ----------------------------------------------------------------
Init ==
  /\ gems = <<>>
  /\ score = 0
  /\ selectedId = NULL
  /\ isProcessing = FALSE
  /\ isPaused = FALSE
  /\ gemIdCounter = 0
  /\ mounted = FALSE
  /\ resets = 0
  /\ swaps = 0
  /\ procs = [p \in Slots |-> IdleProc]
  /\ fmLayout = <<>>
  /\ fmResult = <<>>

\* ---- initGame ------------------------------------------------------------
initGame(kinds) ==
  /\ gems' = initGameGems(gemIdCounter, kinds)
  /\ gemIdCounter' = gemIdCounter + ROWS * COLS
  /\ score' = 0
  /\ isProcessing' = FALSE

\* useEffect(() => { initGame(); }, [])
Mount(kinds) ==
  /\ ~mounted
  /\ mounted' = TRUE
  /\ initGame(kinds)
  /\ UNCHANGED <<selectedId, isPaused, resets, swaps, procs, fmLayout, fmResult>>

\* the Reset button: onClick={initGame}
Reset(kinds) ==
  /\ mounted
  /\ resets' = resets + 1
  /\ initGame(kinds)
  /\ UNCHANGED <<selectedId, isPaused, mounted, swaps, procs, fmLayout, fmResult>>

\* a Pause button that also drops the sequences in flight
TogglePauseCancels ==
  /\ mounted
  /\ isPaused' = ~isPaused
  /\ procs' = [p \in Slots |-> IdleProc]
  /\ isProcessing' = FALSE
  /\ UNCHANGED <<gems, score, selectedId, gemIdCounter, mounted, resets,
                 swaps, fmLayout, fmResult>>

\* the Pause button: onClick={() => setIsPaused(!isPaused)}
TogglePause ==
  /\ mounted
  /\ isPaused' = ~isPaused
  /\ UNCHANGED <<gems, score, selectedId, isProcessing, gemIdCounter, procs,
                 mounted, resets, swaps, fmLayout, fmResult>>

\* ---- processBoard --------------------------------------------------------
\* matchedIds.size * 10 * multiplier
scoreDelta(size, multiplier) == size * 10 * multiplier

\* nextMultiplier without the increment
nextMultiplierSame(multiplier) == multiplier

\* the multiplier of the recursive call
nextMultiplier(multiplier) == multiplier + 1

\* endCascade leaving isProcessing set
endCascadeStillProcessing(p) ==
  /\ isProcessing' = TRUE
  /\ procs' = [procs EXCEPT ![p] = IdleProc]
  /\ UNCHANGED <<gems, score>>

\* matchedIds.size === 0: setIsProcessing(false); return
endCascade(p) ==
  /\ isProcessing' = FALSE
  /\ procs' = [procs EXCEPT ![p] = IdleProc]
  /\ UNCHANGED <<gems, score>>

\* processBoard(currentGems, multiplier) up to its first await or its return,
\* called by the sequence in slot p
processBoard(p, currentGems, multiplier) ==
  LET matchedIds == findMatches(currentGems)
      size == Cardinality(matchedIds)
  IN  IF size = 0
      THEN endCascade(p)
      ELSE /\ isProcessing' = TRUE
           /\ score' = score + scoreDelta(size, multiplier)
           /\ gems' = markMatches(gems, matchedIds)
           /\ procs' = [procs EXCEPT ![p] =
                [@ EXCEPT !.pc = "explode", !.cur = currentGems, !.new = <<>>,
                          !.mult = multiplier,
                          !.rounds = Append(@, size),
                          !.layouts = Append(@, Shape(currentGems)),
                          !.added = @ + (score' - score)]]

\* number of createGem calls of the round the sequence in slot p is in
refillSize(p) == createdTotal(procs[p].cur, findMatches(procs[p].cur))

\* after await wait(300): removal, gravity and refill with the kinds drawn,
\* setGems(newGems)
ExplodeDone(p, kinds) ==
  /\ procs[p].pc = "explode"
  /\ LET newGems ==
           gravityRefill(procs[p].cur, findMatches(procs[p].cur), gemIdCounter, kinds)
     IN  /\ gems' = newGems
         /\ procs' = [procs EXCEPT ![p] = [@ EXCEPT !.pc = "fall", !.new = newGems]]
  /\ gemIdCounter' = gemIdCounter + refillSize(p)
  /\ UNCHANGED <<score, selectedId, isProcessing, isPaused, mounted, resets,
                 swaps, fmLayout, fmResult>>

\* after await wait(50): setGems(prev => newGems)
FallDone(p) ==
  /\ procs[p].pc = "fall"
  /\ gems' = procs[p].new
  /\ procs' = [procs EXCEPT ![p] = [@ EXCEPT !.pc = "animate"]]
  /\ UNCHANGED <<score, selectedId, isProcessing, isPaused, gemIdCounter,
                 mounted, resets, swaps, fmLayout, fmResult>>

\* after await wait(ANIMATION_MS): processBoard(newGems, multiplier + 1)
AnimateDone(p) ==
  /\ procs[p].pc = "animate"
  /\ processBoard(p, procs[p].new, nextMultiplier(procs[p].mult))
  /\ UNCHANGED <<selectedId, isPaused, gemIdCounter, mounted, resets, swaps,
                 fmLayout, fmResult>>

\* ---- handleSwap ----------------------------------------------------------
\* handleSwap(id1, id2) up to its first await
handleSwap(id1, id2) ==
  /\ isProcessing' = TRUE
  /\ selectedId' = NULL
  /\ gems' = swapGems(gems, id1, id2)
  /\ procs' = [procs EXCEPT ![FreeSlot] =
       [IdleProc EXCEPT !.pc = "swapWait", !.orig = gems,
                        !.cur = swapGems(gems, id1, id2), !.score0 = score,
                        !.resets0 = resets]]

\* after await wait(ANIMATION_MS): matches.size > 0, processBoard(nextGems)
SwapDoneMatch(p) ==
  /\ procs[p].pc = "swapWait"
  /\ Cardinality(findMatches(procs[p].cur)) > 0
  /\ processBoard(p, procs[p].cur, 1)
  /\ UNCHANGED <<selectedId, isPaused, gemIdCounter, mounted, resets, swaps,
                 fmLayout, fmResult>>

\* a revert that takes ten points for the invalid move
SwapDoneRevertPenalty(p) ==
  /\ procs[p].pc = "swapWait"
  /\ ~(Cardinality(findMatches(procs[p].cur)) > 0)
  /\ gems' = procs[p].orig
  /\ score' = score - 10
  /\ procs' = [procs EXCEPT ![p] = [@ EXCEPT !.pc = "revertWait"]]
  /\ UNCHANGED <<selectedId, isProcessing, isPaused, gemIdCounter,
                 mounted, resets, swaps, fmLayout, fmResult>>

\* after await wait(ANIMATION_MS): no match, setGems(gems) of the closure
SwapDoneRevert(p) ==
  /\ procs[p].pc = "swapWait"
  /\ ~(Cardinality(findMatches(procs[p].cur)) > 0)
  /\ gems' = procs[p].orig
  /\ procs' = [procs EXCEPT ![p] = [@ EXCEPT !.pc = "revertWait"]]
  /\ UNCHANGED <<score, selectedId, isProcessing, isPaused, gemIdCounter,
                 mounted, resets, swaps, fmLayout, fmResult>>

\* after the second await wait(ANIMATION_MS): setIsProcessing(false)
RevertDone(p) ==
  /\ procs[p].pc = "revertWait"
  /\ isProcessing' = FALSE
  /\ procs' = [procs EXCEPT ![p] = IdleProc]
  /\ UNCHANGED <<gems, score, selectedId, isPaused, gemIdCounter, mounted,
                 resets, swaps, fmLayout, fmResult>>

\* ---- handleClick ---------------------------------------------------------
\* if (isProcessing || isPaused) return;
ClickIgnored(id) ==
  /\ isProcessing \/ isPaused
  /\ UNCHANGED vars

\* selectedId === null: setSelectedId(id)
ClickSelect(id) ==
  /\ ~(isProcessing \/ isPaused)
  /\ selectedId = NULL
  /\ selectedId' = id
  /\ UNCHANGED <<gems, score, isProcessing, isPaused, gemIdCounter, procs,
                 mounted, resets, swaps, fmLayout, fmResult>>

\* a second click on the selected gem that keeps it selected
ClickDeselectKeeps(id) ==
  /\ ~(isProcessing \/ isPaused)
  /\ selectedId # NULL
  /\ selectedId = id
  /\ UNCHANGED vars

\* selectedId === id: setSelectedId(null)
ClickDeselect(id) ==
  /\ ~(isProcessing \/ isPaused)
  /\ selectedId # NULL
  /\ selectedId = id
  /\ selectedId' = NULL
  /\ UNCHANGED <<gems, score, isProcessing, isPaused, gemIdCounter, procs,
                 mounted, resets, swaps, fmLayout, fmResult>>

\* g1 && g2 and dx + dy === 1: handleSwap(selectedId, id)
ClickSwap(id) ==
  /\ ~(isProcessing \/ isPaused)
  /\ selectedId # NULL
  /\ selectedId # id
  /\ LET g1 == findById(gems, selectedId)
         g2 == findById(gems, id)
     IN  /\ g1 # NoGem /\ g2 # NoGem
         /\ distance(g1, g2) = 1
  /\ swaps' = swaps + 1
  /\ handleSwap(selectedId, id)
  /\ UNCHANGED <<score, isPaused, gemIdCounter, mounted, resets, fmLayout,
                 fmResult>>

\* g1 && g2 and dx + dy !== 1: setSelectedId(id)
ClickReselect(id) ==
  /\ ~(isProcessing \/ isPaused)
  /\ selectedId # NULL
  /\ selectedId # id
  /\ LET g1 == findById(gems, selectedId)
         g2 == findById(gems, id)
     IN  /\ g1 # NoGem /\ g2 # NoGem
         /\ distance(g1, g2) # 1
  /\ selectedId' = id
  /\ UNCHANGED <<gems, score, isProcessing, isPaused, gemIdCounter, procs,
                 mounted, resets, swaps, fmLayout, fmResult>>

\* g1 or g2 undefined: nothing happens
ClickNotFound(id) ==
  /\ ~(isProcessing \/ isPaused)
  /\ selectedId # NULL
  /\ selectedId # id
  /\ LET g1 == findById(gems, selectedId)
         g2 == findById(gems, id)
     IN  ~(g1 # NoGem /\ g2 # NoGem)
  /\ UNCHANGED vars

\* handleClick(id) when handleSwap is called at most maxSwaps times and at
\* most MaxProcs sequences are in flight
handleClick(id, maxSwaps) ==
  \/ ClickIgnored(id)
  \/ ClickSelect(id)
  \/ ClickDeselect(id)
  \/ (swaps < maxSwaps /\ Slots \ InFlight # {} /\ ClickSwap(id))
  \/ ClickReselect(id)
  \/ ClickNotFound(id)

\* the steps of the in-flight sequences, the refills creating at most
\* maxRefill gems
Timers(maxRefill) ==
  \/ \E p \in Slots : SwapDoneMatch(p)
  \/ \E p \in Slots : SwapDoneRevert(p)
  \/ \E p \in Slots : RevertDone(p)
  \/ \E p \in Slots :
       /\ procs[p].pc = "explode"
       /\ Refilled + refillSize(p) <= maxRefill
       /\ \E kinds \in [1..refillSize(p) -> TYPES] : ExplodeDone(p, kinds)
  \/ \E p \in Slots : FallDone(p)
  \/ \E p \in Slots : AnimateDone(p)

\* ---- the whole program ---------------------------------------------------
Next ==
  \/ \E kinds \in SampleKinds : Mount(kinds)
  \/ \E kinds \in SampleKinds : resets < MaxResets /\ Reset(kinds)
  \/ TogglePause
  \/ \E id \in Ids(gems) : handleClick(id, MaxSwaps)
  \/ Timers(MaxRefill)

Spec == Init /\ [][Next]_vars

\* ---- one game: the program without the Reset button ----------------------
NextGame ==
  \/ \E kinds \in GameKinds : Mount(kinds)
  \/ TogglePause
  \/ \E id \in Ids(gems) : handleClick(id, GameSwaps)
  \/ Timers(GameRefill)

SpecGame == Init /\ [][NextGame]_vars

\* ---- one swap and its cascade, with the Pause button -------------------
NextPause ==
  \/ \E kinds \in GameKinds : Mount(kinds)
  \/ TogglePause
  \/ \E id \in Ids(gems) : handleClick(id, PauseSwaps)
  \/ Timers(PauseRefill)

SpecPause == Init /\ [][NextPause]_vars

\* ---- initGame alone, every board -----------------------------------------
NextInitGame ==
  \/ \E kinds \in InitKinds : Mount(kinds)
  \/ \E kinds \in InitKinds : resets < MaxResets /\ Reset(kinds)

SpecInitGame == Init /\ [][NextInitGame]_vars

\* ---- findMatches alone, every full layout --------------------------------
\* the full layouts: one gem per cell, in the array order of initGame or in
\* the reverse order
FullLayouts ==
  UNION {{initGameGems(0, kinds),
          [i \in 1..(ROWS * COLS) |->
             initGameGems(0, kinds)[ROWS * COLS + 1 - i]]} :
         kinds \in [1..(ROWS * COLS) -> TYPES]}

InitFindMatches ==
  /\ gems = <<>>
  /\ score = 0
  /\ selectedId = NULL
  /\ isProcessing = FALSE
  /\ isPaused = FALSE
  /\ gemIdCounter = 0
  /\ mounted = FALSE
  /\ resets = 0
  /\ swaps = 0
  /\ procs = [p \in Slots |-> IdleProc]
  /\ fmLayout \in FullLayouts
  /\ fmResult = <<>>

\* const matches = findMatches(layout)
CallFindMatches ==
  /\ fmResult = <<>>
  /\ fmResult' = <<findMatches(fmLayout)>>
  /\ UNCHANGED <<gems, score, selectedId, isProcessing, isPaused, gemIdCounter,
                 mounted, resets, swaps, procs, fmLayout>>

SpecFindMatches == InitFindMatches /\ [][CallFindMatches]_vars

\* ==== the claims ==========================================================
InBounds(g) == g.x \in 0..(COLS - 1) /\ g.y \in 0..(ROWS - 1)

\* every cell holds exactly one gem and no gem lies outside the board
IsFull(g) ==
  /\ \A x \in 0..(COLS - 1), y \in 0..(ROWS - 1) :
       Cardinality({i \in 1..Len(g) : g[i].x = x /\ g[i].y = y}) = 1
  /\ \A i \in 1..Len(g) : InBounds(g[i])

\* C1: after initGame, after a reverted swap and after every completed round
\* of processBoard (the newGems it hands to setGems and to the next round)
\* every cell of the board holds exactly one gem and no gem lies outside it.
C1_FullBoard ==
  /\ (mounted /\ swaps = 0) => IsFull(gems)
  /\ \A p \in Slots : procs[p].pc = "revertWait" => IsFull(procs[p].orig)
  /\ \A p \in Slots : procs[p].pc \in {"fall", "animate"} => IsFull(procs[p].new)

\* C2: at most one handleSwap sequence is in flight at any time.
C2_MutualExclusion == Cardinality(InFlight) <= 1

\* C3: a Reset click in any state leaves a freshly initialized board, score
\* 0, isProcessing false and no selection.
C3_Reset ==
  [][resets' # resets =>
       /\ IsFull(gems') /\ findMatches(gems') = {}
       /\ score' = 0
       /\ ~isProcessing'
       /\ selectedId' = NULL]_vars

\* C4: when handleSwap returns after a swap that made no match, the board is
\* the board before the swap, the score is the score before the swap and the
\* session is Idle.  Swaps during which Reset was pressed are left out: the
\* board they end on is the one Reset drew.
C4_NoMatchSwapNoOp ==
  [][\A p \in Slots :
       (/\ procs[p].pc = "revertWait"
        /\ procs'[p].pc = "idle"
        /\ procs[p].resets0 = resets) =>
         /\ gems' = procs[p].orig
         /\ score' = procs[p].score0
         /\ ~isProcessing'
         /\ selectedId' = NULL]_vars

RECURSIVE SumRounds(_)
\* the sum over the rounds i = 1 .. Len(r) of r[i] * 10 * i
SumRounds(r) ==
  IF r = <<>> THEN 0
  ELSE SumRounds(SubSeq(r, 1, Len(r) - 1)) + r[Len(r)] * 10 * Len(r)

\* C5: what a cascade has added to the score is the sum over its rounds i
\* (from 1) of m_i * 10 * i, m_i being the number of gems matched in round i;
\* the multiplier of round i is i, whatever earlier cascades did.
C5_ScoreFormula ==
  \A p \in Slots :
    /\ procs[p].added = SumRounds(procs[p].rounds)
    /\ procs[p].pc \in {"explode", "fall", "animate"} =>
         procs[p].mult = Len(procs[p].rounds)

C5_Witness ==
  \E p \in Slots : Len(procs[p].rounds) >= 3 /\ swaps = 2

\* the gems of g that lie in a run of three or more gems of one kind along a
\* row or a column
InRun(g, a) ==
  \/ \E lo \in 0..(COLS - 1), hi \in 0..(COLS - 1) :
       /\ lo <= a.x /\ a.x <= hi /\ hi - lo >= 2
       /\ \A x \in lo..hi :
            \E j \in 1..Len(g) : g[j].x = x /\ g[j].y = a.y /\ g[j].type = a.type
  \/ \E lo \in 0..(ROWS - 1), hi \in 0..(ROWS - 1) :
       /\ lo <= a.y /\ a.y <= hi /\ hi - lo >= 2
       /\ \A y \in lo..hi :
            \E j \in 1..Len(g) : g[j].x = a.x /\ g[j].y = y /\ g[j].type = a.type

RunIds(g) == {g[i].id : i \in {j \in 1..Len(g) : InBounds(g[j]) /\ InRun(g, g[j])}}

\* C6: on a full layout findMatches returns exactly the ids of the gems that
\* lie in a run of three or more of one kind along a row or a column.
C6_MatchCorrectness ==
  fmResult # <<>> => fmResult[1] = RunIds(fmLayout)

\* a layout with a row of four, a gem in a run along its row and along its
\* column, and a gem in no run
C6_Witness ==
  /\ fmResult # <<>>
  /\ \E y \in 0..(ROWS - 1) :
       \A x \in 0..3 : getGemAt(x, y, fmLayout).id \in fmResult[1]
  /\ \E x \in 0..(COLS - 1) :
       \A y \in 0..2 : getGemAt(x, y, fmLayout).id \in fmResult[1]
  /\ Ids(fmLayout) \ fmResult[1] # {}

\* C7: the board initGame produces, at the mount and at a Reset, has no run:
\* findMatches returns the empty set.
C7_NoInitialMatch ==
  mounted => (findMatches(gems) = {} /\ RunIds(gems) = {})

C7_Witness == mounted /\ resets = 1 /\ Len(gems) = ROWS * COLS

\* C8: after the gravity step of a round, the k gems of a column that
\* survived the removal are in the same column, on the rows ROWS-k .. ROWS-1,
\* in the order from top to bottom they had before.
GravityHolds(cur, new) ==
  LET surv == remainingGems(cur, findMatches(cur))
  IN  \A x \in 0..(COLS - 1) :
        LET S == {i \in 1..Len(surv) : surv[i].x = x}
            k == Cardinality(S)
        IN  /\ \A i \in S : findById(new, surv[i].id).x = x
            /\ {findById(new, surv[i].id).y : i \in S} = (ROWS - k)..(ROWS - 1)
            /\ \A i \in S, j \in S :
                 surv[i].y < surv[j].y =>
                   findById(new, surv[i].id).y < findById(new, surv[j].id).y

C8_Gravity ==
  \A p \in Slots :
    procs[p].pc \in {"fall", "animate"} => GravityHolds(procs[p].cur, procs[p].new)

\* a round in which a column keeps two gems, one of them falling
C8_Witness ==
  \E p \in Slots :
    /\ procs[p].pc = "fall"
    /\ LET surv == remainingGems(procs[p].cur, findMatches(procs[p].cur))
       IN  \E x \in 0..(COLS - 1) :
             /\ Cardinality({i \in 1..Len(surv) : surv[i].x = x}) = 2
             /\ \E i \in 1..Len(surv) :
                  /\ surv[i].x = x
                  /\ findById(procs[p].new, surv[i].id).y # surv[i].y

\* |x1 - x2| + |y1 - y2|
Manhattan(g1, g2) ==
  (IF g1.x < g2.x THEN g2.x - g1.x ELSE g1.x - g2.x)
  + (IF g1.y < g2.y THEN g2.y - g1.y ELSE g1.y - g2.y)

\* the click makes id the selection and changes nothing else
SelectsOnly(id) ==
  /\ selectedId' = id
  /\ UNCHANGED <<gems, score, isProcessing, isPaused, gemIdCounter, procs>>

\* the session is in Selected(a) and b is a gem, not a, whose distance from a
\* is not 1
FarFromSelected(b) ==
  /\ selectedId # NULL
  /\ ~isProcessing
  /\ b # selectedId
  /\ findById(gems, selectedId) # NoGem
  /\ findById(gems, b) # NoGem
  /\ Manhattan(findById(gems, selectedId), findById(gems, b)) # 1

\* every handleSwap in flight exchanged two gems at distance 1
SwapsAreAdjacent ==
  \A p \in Slots :
    procs[p].pc = "swapWait" =>
      \E a \in Ids(procs[p].orig), b \in Ids(procs[p].orig) :
        /\ Manhattan(findById(procs[p].orig, a), findById(procs[p].orig, b)) = 1
        /\ \A i \in 1..Len(procs[p].orig) :
             LET o == procs[p].orig[i]
                 c == procs[p].cur[i]
             IN  IF o.id = a
                 THEN c = [o EXCEPT !.x = findById(procs[p].orig, b).x,
                                    !.y = findById(procs[p].orig, b).y]
                 ELSE IF o.id = b
                 THEN c = [o EXCEPT !.x = findById(procs[p].orig, a).x,
                                    !.y = findById(procs[p].orig, a).y]
                 ELSE c = o

\* C10 as claimed: in Selected(a), a click on another gem b whose distance
\* from a is not 1 makes b the selection and changes nothing else; positions
\* are exchanged only between gems at distance 1.
C10_Reselect ==
  /\ \A b \in Ids(gems) :
       FarFromSelected(b) =>
         /\ ENABLED (handleClick(b, MaxSwaps) /\ SelectsOnly(b))
         /\ ~ENABLED (handleClick(b, MaxSwaps) /\ ~SelectsOnly(b))
  /\ SwapsAreAdjacent

\* C10 amended: the same while the game is not paused.
C10_ReselectWhenActive ==
  /\ \A b \in Ids(gems) :
       (FarFromSelected(b) /\ ~isPaused) =>
         /\ ENABLED (handleClick(b, MaxSwaps) /\ SelectsOnly(b))
         /\ ~ENABLED (handleClick(b, MaxSwaps) /\ ~SelectsOnly(b))
  /\ SwapsAreAdjacent

\* a gem is selected after a first swap, a gem at distance 2 can be clicked
C10_Witness ==
  /\ ~isPaused /\ swaps = 1
  /\ \E b \in Ids(gems) :
       /\ FarFromSelected(b)
       /\ Manhattan(findById(gems, selectedId), findById(gems, b)) = 2
       /\ ENABLED (handleClick(b, MaxSwaps) /\ SelectsOnly(b))

\* C9 as claimed: a cascade ends whatever kinds the refills draw.  Then no
\* cascade begins two rounds with the same layout (positions and kinds of
\* all gems): the draws that led from the layout back to it can be drawn
\* again, for ever.
C9_NoLayoutTwice ==
  \A p \in Slots :
    \A i \in 1..Len(procs[p].layouts), j \in 1..Len(procs[p].layouts) :
      i < j => procs[p].layouts[i] # procs[p].layouts[j]

\* C9 amended: a cascade ends at the first round that finds no match, and
\* isProcessing is then false; every round before it removed three gems or
\* more and is followed by a round with the next multiplier.
C9_EndsWhenNoMatch ==
  [][\A p \in Slots :
       (procs[p].pc = "animate" /\ procs'[p] # procs[p]) =>
         IF findMatches(procs[p].new) = {}
         THEN procs'[p].pc = "idle" /\ ~isProcessing'
         ELSE /\ procs'[p].pc = "explode"
              /\ isProcessing'
              /\ Len(procs'[p].rounds) = Len(procs[p].rounds) + 1
              /\ \A i \in 1..Len(procs'[p].rounds) : procs'[p].rounds[i] >= 3]_vars

\* a cascade about to end after two rounds or more
C9_Witness ==
  \E p \in Slots :
    /\ procs[p].pc = "animate"
    /\ Len(procs[p].rounds) >= 2
    /\ findMatches(procs[p].new) = {}

\* h is g with the positions of the gems a and b exchanged: same length and
\* array order, every id and kind where it was, every other gem unchanged
ExchangedOnly(g, h, a, b) ==
  /\ Len(h) = Len(g)
  /\ \A i \in 1..Len(g) :
       /\ h[i].id = g[i].id
       /\ h[i].type = g[i].type
       /\ h[i].isMatch = g[i].isMatch
       /\ g[i].id \notin {a, b} => (h[i].x = g[i].x /\ h[i].y = g[i].y)
       /\ g[i].id = a =>
            \E j \in 1..Len(g) : g[j].id = b /\ h[i].x = g[j].x /\ h[i].y = g[j].y
       /\ g[i].id = b =>
            \E j \in 1..Len(g) : g[j].id = a /\ h[i].x = g[j].x /\ h[i].y = g[j].y

\* C11: the swap of handleSwap exchanges the positions of the two gems and
\* changes nothing else, and swapping b and a afterwards gives the layout
\* before the swap back; checked for the selected gem and every gem at
\* distance 1 of it, and for the nextGems of every handleSwap in flight.
C11_SwapSymmetry ==
  /\ \A a \in Ids(gems) \cap {selectedId}, b \in Ids(gems) :
       Manhattan(findById(gems, a), findById(gems, b)) = 1 =>
         /\ ExchangedOnly(gems, swapGems(gems, a, b), a, b)
         /\ swapGems(swapGems(gems, a, b), b, a) = gems
  /\ \A p \in Slots :
       procs[p].pc = "swapWait" =>
         \E a \in Ids(procs[p].orig), b \in Ids(procs[p].orig) :
           /\ a # b
           /\ ExchangedOnly(procs[p].orig, procs[p].cur, a, b)
           /\ swapGems(procs[p].cur, b, a) = procs[p].orig

\* a second handleSwap has exchanged two gems and awaits its first timeout
C11_Witness ==
  \E p \in Slots :
    /\ procs[p].pc = "swapWait"
    /\ swaps = 2
    /\ procs[p].cur # procs[p].orig

\* the next step of the sequence in slot p, a refill drawing the first kind
SequenceStep(p) ==
  \/ SwapDoneMatch(p)
  \/ SwapDoneRevert(p)
  \/ RevertDone(p)
  \/ ExplodeDone(p, [i \in 1..refillSize(p) |-> 1])
  \/ FallDone(p)
  \/ AnimateDone(p)

\* what a game consists of besides the paused flag
GameState == <<gems, score, selectedId, isProcessing, procs, gemIdCounter>>

\* a step of handleClick: it calls handleSwap, or it is none of the mount,
\* Reset, Pause and the steps of a sequence
ClickStep ==
  \/ swaps' # swaps
  \/ UNCHANGED <<procs, mounted, resets, isPaused>>

\* C12: while isPaused is set a click on a gem changes neither the selection
\* nor the board nor the score and starts no swap; a click on Pause changes
\* only the flag, and every sequence in flight can take its next step
\* whether the flag is set or not.
C12_Pause ==
  /\ [](\A p \in InFlight : ENABLED SequenceStep(p))
  /\ [][/\ (isPaused /\ ClickStep) => GameState' = GameState
        /\ isPaused' # isPaused => GameState' = GameState]_vars

\* the game is paused while a cascade has refilled the board and awaits its
\* next round
C12_Witness ==
  /\ isPaused
  /\ \E p \in Slots : procs[p].pc = "animate" /\ procs[p].added > 0

\* a click on the gem id does exactly A, whatever branch it takes
ClickDoes(id, A) ==
  /\ ENABLED (handleClick(id, MaxSwaps) /\ A)
  /\ ~ENABLED (handleClick(id, MaxSwaps) /\ ~A)

\* the click changes nothing of the game
ChangesNothing == UNCHANGED <<GameState, isPaused>>

\* C13 as claimed: in Idle, not paused, a click on a gem selects it; in
\* Selected(a) a click on a returns to Idle; neither changes the board or the
\* score; while isProcessing a click changes nothing.
C13_Selection ==
  \A id \in Ids(gems) :
    /\ (selectedId = NULL /\ ~isProcessing /\ ~isPaused) =>
         ClickDoes(id, SelectsOnly(id))
    /\ (selectedId = id /\ ~isProcessing) => ClickDoes(id, SelectsOnly(NULL))
    /\ isProcessing => ClickDoes(id, ChangesNothing)

\* C13 amended: the click on the selected gem returns to Idle while the game
\* is not paused.
C13_SelectionWhenActive ==
  \A id \in Ids(gems) :
    /\ (selectedId = NULL /\ ~isProcessing /\ ~isPaused) =>
         ClickDoes(id, SelectsOnly(id))
    /\ (selectedId = id /\ ~isProcessing /\ ~isPaused) =>
         ClickDoes(id, SelectsOnly(NULL))
    /\ isProcessing => ClickDoes(id, ChangesNothing)

\* after a first swap a gem is selected and can be clicked again
C13_Witness ==
  /\ swaps = 1 /\ ~isProcessing /\ ~isPaused
  /\ selectedId \in Ids(gems)
  /\ ENABLED (handleClick(selectedId, MaxSwaps) /\ SelectsOnly(NULL))

\* C14: after a Reset no step of a sequence that began before it changes the
\* board or the score.
C14_ResetNotUndone ==
  [][\A p \in Slots :
       (/\ procs[p].pc # "idle"
        /\ procs[p].resets0 < resets
        /\ procs'[p] # procs[p]) =>
         (gems' = gems /\ score' = score)]_vars

\* C15: whenever isProcessing is false, findMatches on the board returns the
\* empty set.
C15_StableMatchFree == ~isProcessing => findMatches(gems) = {}

\* no two gems of the layout g have the same x and y
OnePerCell(g) ==
  \A i \in 1..Len(g), j \in 1..Len(g) :
    (g[i].x = g[j].x /\ g[i].y = g[j].y) => i = j

\* C16: no two gems have the same position, on the board shown and in the
\* layouts of a tentative swap and of each round of a cascade.
C16_OnePerCell ==
  /\ OnePerCell(gems)
  /\ \A p \in Slots :
       /\ OnePerCell(procs[p].orig)
       /\ OnePerCell(procs[p].cur)
       /\ OnePerCell(procs[p].new)

\* a round has removed a whole column of three and created three gems for it
C16_Witness ==
  \E p \in Slots :
    /\ procs[p].pc = "fall"
    /\ \E x \in 0..(COLS - 1) :
         Cardinality({i \in 1..Len(procs[p].new) :
                        procs[p].new[i].x = x /\ procs[p].new[i].y < 0}) >= 2

\* the step begins a round of the sequence in slot p that matched gems
RoundBegins(p) ==
  /\ procs[p].pc \in {"swapWait", "animate"}
  /\ procs'[p].pc = "explode"
  /\ Len(procs'[p].rounds) = Len(procs[p].rounds) + 1
  /\ procs'[p].rounds[Len(procs'[p].rounds)] >= 3

\* C17: in every step that is not a Reset the score does not decrease, and
\* it changes only when a round of a cascade has matched gems; the step of a
\* Reset sets it to 0.
C17_ScoreMonotonic ==
  [][/\ resets' = resets =>
          /\ score' >= score
          /\ score' # score => \E p \in Slots : RoundBegins(p)
     /\ resets' # resets => score' = 0]_vars

\* points have been added since a Reset
C17_Witness ==
  /\ resets = 1
  /\ score > 0
  /\ \E p \in Slots : procs[p].pc = "explode"

\* the ids of the gems of the layout g in column x
IdsInColumn(g, x) == {g[i].id : i \in {j \in 1..Len(g) : g[j].x = x}}

\* the layout has ROWS * COLS gems, ROWS of them in every column
Conserved(g) ==
  /\ Len(g) = ROWS * COLS
  /\ Cardinality(Ids(g)) = ROWS * COLS
  /\ \A x \in 0..(COLS - 1) : Cardinality(IdsInColumn(g, x)) = ROWS

\* C18: after the first initGame the board has ROWS * COLS gems, ROWS in
\* every column, and a round creates in every column as many gems as it
\* removed from it.
C18_Conservation ==
  /\ mounted => Conserved(gems)
  /\ \A p \in Slots :
       procs[p].pc \in {"fall", "animate"} =>
         /\ Conserved(procs[p].new)
         /\ \A x \in 0..(COLS - 1) :
              Cardinality(IdsInColumn(procs[p].new, x) \ Ids(procs[p].cur))
                = Cardinality(IdsInColumn(procs[p].cur, x) \ Ids(procs[p].new))

\* a round has removed two gems or more of one column and none of another
C18_Witness ==
  \E p \in Slots :
    /\ procs[p].pc = "fall"
    /\ \E x \in 0..(COLS - 1) :
         Cardinality(IdsInColumn(procs[p].cur, x) \ Ids(procs[p].new)) >= 2
    /\ \E x \in 0..(COLS - 1) :
         Cardinality(IdsInColumn(procs[p].cur, x) \ Ids(procs[p].new)) = 0

\* C19: a selectedId that is not null is the id of a gem of the board, so
\* while isProcessing and isPaused are false a click on a gem of the board
\* always changes the session state.
C19_SelectionLive ==
  /\ selectedId # NULL => selectedId \in Ids(gems)
  /\ (~isProcessing /\ ~isPaused) =>
       \A id \in Ids(gems) :
         ~ENABLED (handleClick(id, MaxSwaps) /\ UNCHANGED <<selectedId, isProcessing>>)

\* C20: isProcessing is never true while a gem is selected.
C20_SelectedOrProcessing == ~(isProcessing /\ selectedId # NULL)

====
